---- MODULE Spec2Model ----
(***************************************************************************)
(* p2pool-tg-notifier (src/main.go): the worker goroutine that polls the   *)
(* pool API and fans a notification out to the subscribers, and the       *)
(* inbound loop of main that appends chat ids to the subscribers file.    *)
(* Both goroutines use the same file without any lock.                    *)
(***************************************************************************)
EXTENDS Integers, Sequences, FiniteSets, TLC

\* ---------------------------------------------------------------- bounds
\* Worker cycles explored while every cycle so far has returned nil; the
\* counters of cycles, changes and fanouts are kept for that part of a run.
\* Once a cycle has failed (a failed fetch changes nothing but the counters)
\* the worker runs on without a bound on its cycles.
MaxTicks == 1
\* Bytes the subscribers file may hold.
MaxFileLen == 4

\* Heights and timestamps (epoch ms) the remote API may report.
Heights == {0, 1, 2}
Stamps == {1, 2}
\* Chat ids that send a message to the bot.
ChatIDs == {2, 12}

\* ---------------------------------------------------------------- values
\* An error value: what it is, and nothing about the chat or the block it
\* came from (the code wraps no error).  nil is the absence of an error.
Error(kind) == [kind |-> kind]
nil == Error("nil")
NL == "\n"
CR == "\r"

\* block{} : the zero value of the struct (height 0, zero time).
ZeroBlock == [height |-> 0, ts |-> 0]

Range(s) == {s[i] : i \in 1..Len(s)}

\* ------------------------------------------------------- strconv (int64)
DigitVal ==
  [c \in {"0", "1", "2", "3", "4", "5", "6", "7", "8", "9"} |->
     CASE c = "0" -> 0 [] c = "1" -> 1 [] c = "2" -> 2 [] c = "3" -> 3
       [] c = "4" -> 4 [] c = "5" -> 5 [] c = "6" -> 6 [] c = "7" -> 7
       [] c = "8" -> 8 [] c = "9" -> 9]

DigitChar == <<"0", "1", "2", "3", "4", "5", "6", "7", "8", "9">>

RECURSIVE UintVal(_)
UintVal(s) ==
  IF s = <<>> THEN 0
  ELSE UintVal(SubSeq(s, 1, Len(s) - 1)) * 10 + DigitVal[s[Len(s)]]

\* strconv.ParseInt(s, 10, 64): optional sign, then one or more digits.
\* ErrRange needs more than 18 digits, which MaxFileLen keeps out of reach.
ParseInt(s) ==
  LET signed == Len(s) > 0 /\ s[1] \in {"+", "-"}
      neg    == Len(s) > 0 /\ s[1] = "-"
      digits == IF signed THEN SubSeq(s, 2, Len(s)) ELSE s
  IN  IF Len(s) = 0 \/ Len(digits) = 0
        \/ \E i \in 1..Len(digits) : digits[i] \notin DOMAIN DigitVal
      THEN [err |-> Error("ErrSyntax"), val |-> 0]
      ELSE IF Len(digits) > 18
      THEN [err |-> Error("ErrRange"), val |-> 0]
      ELSE [err |-> nil,
            val |-> IF neg THEN 0 - UintVal(digits) ELSE UintVal(digits)]

RECURSIVE FormatUint(_)
FormatUint(n) ==
  IF n < 10 THEN <<DigitChar[n + 1]>>
  ELSE FormatUint(n \div 10) \o <<DigitChar[(n % 10) + 1]>>

\* strconv.FormatInt(n, 10)
FormatInt(n) == IF n < 0 THEN <<"-">> \o FormatUint(0 - n) ELSE FormatUint(n)

\* ------------------------------------------------------ bufio.ScanLines
\* Index of the first newline of data, 0 when there is none.
NewlineAt(data) ==
  IF \E i \in 1..Len(data) : data[i] = NL
  THEN CHOOSE i \in 1..Len(data) :
         data[i] = NL /\ \A j \in 1..(i - 1) : data[j] # NL
  ELSE 0

\* dropCR of bufio: a trailing carriage return is not part of the token.
dropCR(line) ==
  IF Len(line) > 0 /\ line[Len(line)] = CR
  THEN SubSeq(line, 1, Len(line) - 1)
  ELSE line

\* The complete (newline-terminated) lines of data, in order.
RECURSIVE LinesOf(_)
LinesOf(data) ==
  LET i == NewlineAt(data)
  IN  IF i = 0 THEN <<>>
      ELSE <<dropCR(SubSeq(data, 1, i - 1))>>
             \o LinesOf(SubSeq(data, i + 1, Len(data)))

\* ------------------------------------------------------- fetchLastBlock
Num(v) == [type |-> "float64", val |-> v]
Str == [type |-> "string", val |-> 0]
StatusCodes == {200, 500}

Payload(blocks) ==
  [neterr |-> FALSE, status |-> 200, readable |-> TRUE, json |-> TRUE,
   blocks |-> blocks]

\* What http.Get and the body of its answer can be.
Responses ==
  { [Payload(<<>>) EXCEPT !.neterr = TRUE],
    [Payload(<<>>) EXCEPT !.readable = FALSE],
    [Payload(<<>>) EXCEPT !.json = FALSE],
    Payload(<<>>),
    Payload(<<[ts |-> Num(1)]>>),
    Payload(<<[height |-> Str, ts |-> Num(1)]>>),
    Payload(<<[height |-> Num(1)]>>),
    Payload(<<[height |-> Num(1), ts |-> Str]>>) }
  \cup { [Payload(<<[height |-> Num(h), ts |-> Num(t)]>>) EXCEPT !.status = c] :
           h \in Heights, t \in Stamps, c \in StatusCodes }

IsFloat64(m, key) == key \in DOMAIN m /\ m[key].type = "float64"

\* fetchLastBlock: the (block, error) pair it returns for a response.
fetchLastBlock(res) ==
  IF res.neterr THEN [block |-> ZeroBlock, err |-> Error("httpError")]
  ELSE IF ~res.readable THEN [block |-> ZeroBlock, err |-> Error("readError")]
  ELSE IF ~res.json THEN [block |-> ZeroBlock, err |-> Error("jsonError")]
  ELSE IF Len(res.blocks) <= 0
    THEN [block |-> ZeroBlock, err |-> Error("errUnexpectedStructure")]
  ELSE IF "height" \notin DOMAIN res.blocks[1]
    THEN [block |-> ZeroBlock, err |-> Error("errUnexpectedStructure")]
  ELSE IF ~IsFloat64(res.blocks[1], "height")
    THEN [block |-> ZeroBlock, err |-> Error("errUnexpectedStructure")]
  ELSE IF ~IsFloat64(res.blocks[1], "ts")
    THEN [block |-> ZeroBlock, err |-> Error("errUnexpectedStructure")]
  ELSE [block |-> [height |-> res.blocks[1]["height"].val,
                   ts |-> res.blocks[1]["ts"].val],
        err |-> nil]

\* --------------------------------------------------------------- state
VARIABLES
  \* the subscribers file
  exists, content,
  \* worker goroutine
  wpc, ticks, lastBlockChecked, lastBlock, ids, idx, rdOff, rdBuf, err,
  \* inbound loop of main
  ipc, tgid, pending, saveErr,
  \* what happened in the current cycle (observation only)
  before, fetched, firstFetch, detected, openRes, completedAtOpen, attempts, logged,
  \* what happened since the start of the process (observation only)
  prevFetched, changes, fanouts, allOk, written, completed, clean,
  lost, sizeAtRecv, appends, status, lastFanout,
  \* the context handed to the worker
  cancelled, cancelAt

fileVars == <<exists, content>>
workerVars == <<wpc, ticks, lastBlockChecked, lastBlock, ids, idx, rdOff,
                rdBuf, err>>
inboundVars == <<ipc, tgid, pending, saveErr>>
cycleObs == <<before, fetched, firstFetch, detected, openRes, completedAtOpen, attempts,
              logged>>
workerObs == <<prevFetched, changes, fanouts, allOk>>
lossObs == <<lost>>
inboundObs == <<written, completed, clean>>
appendObs == <<sizeAtRecv, appends>>
httpObs == <<status>>
fanoutObs == <<lastFanout>>
ctxVars == <<cancelled, cancelAt>>
vars == <<fileVars, workerVars, inboundVars, cycleObs, workerObs, inboundObs,
          lossObs, appendObs, httpObs, fanoutObs, ctxVars>>

\* No successful fetch yet.
NoHeight == 0 - 1

\* The subscribers file as the process may find it at start: absent, empty,
\* or newline-terminated lines of which some may be corrupt.
InitFiles ==
  { [exists |-> FALSE, content |-> <<>>],
    [exists |-> TRUE, content |-> <<>>],
    [exists |-> TRUE, content |-> <<"1", NL>>],
    [exists |-> TRUE, content |-> <<"x", NL>>],
    [exists |-> TRUE, content |-> <<"1", NL, "x", NL>>],
    [exists |-> TRUE, content |-> <<"x", NL, "1", NL>>] }

\* The ids of the lines of data that are decimal integers.
WholeIds(data) ==
  {ParseInt(l).val : l \in {m \in Range(LinesOf(data)) : ParseInt(m).err = nil}}

AllLinesValid(data) == \A l \in Range(LinesOf(data)) : ParseInt(l).err = nil

Init ==
  /\ \E f \in InitFiles :
       /\ exists = f.exists
       /\ content = f.content
       /\ written = WholeIds(f.content)
       /\ clean = AllLinesValid(f.content)
  /\ wpc = "select" /\ ticks = 0
  /\ lastBlockChecked = ZeroBlock
  /\ lastBlock = ZeroBlock
  /\ ids = <<>> /\ idx = 0 /\ rdOff = 0 /\ rdBuf = <<>> /\ err = nil
  /\ ipc = "recv" /\ tgid = 0 /\ pending = <<>> /\ saveErr = nil
  /\ before = ZeroBlock /\ fetched = FALSE /\ firstFetch = FALSE
  /\ detected = FALSE
  /\ openRes = "none" /\ completedAtOpen = {} /\ attempts = <<>>
  /\ logged = nil
  /\ prevFetched = NoHeight /\ changes = 0 /\ fanouts = 0 /\ allOk = TRUE
  /\ completed = {}
  /\ lost = NoHeight
  /\ status = 0 /\ lastFanout = NoHeight
  /\ sizeAtRecv = 0 /\ appends = [id \in ChatIDs |-> 0]
  /\ cancelled = FALSE /\ cancelAt = "none"

\* ------------------------------------------------------------- worker
\* Variant: the select has no case for ctx.Done().
CanStartCycleAlways == TRUE

\* The select of the worker: the default branch runs only while the channel
\* of ctx.Done() is open.
CanStartCycle == ~cancelled

\* worker: the default branch of the select starts one more cycle.
WorkerSelect ==
  /\ wpc = "select"
  /\ CanStartCycle
  /\ allOk => ticks < MaxTicks
  /\ wpc' = "fetch"
  /\ ticks' = IF allOk THEN ticks + 1 ELSE ticks
  /\ lastBlock' = ZeroBlock
  /\ ids' = <<>> /\ idx' = 0 /\ rdOff' = 0 /\ rdBuf' = <<>> /\ err' = nil
  /\ before' = lastBlockChecked /\ fetched' = FALSE /\ firstFetch' = FALSE
  /\ detected' = FALSE
  /\ openRes' = "none" /\ completedAtOpen' = {} /\ attempts' = <<>>
  /\ logged' = nil
  /\ UNCHANGED <<lastBlockChecked, fileVars, inboundVars, workerObs,
                 inboundObs>>
  /\ UNCHANGED lossObs
  /\ UNCHANGED ctxVars
  /\ UNCHANGED appendObs
  /\ UNCHANGED httpObs
  /\ lastFanout' = IF attempts # <<>> THEN lastBlock.height ELSE lastFanout

\* Variant: the two structs are compared whole, timestamp included.
HeightChangedByValue(blk, checked) == blk # checked

\* Variant: only a greater height counts.
HeightGrew(blk, checked) == blk.height > checked.height

\* The comparison that decides whether the fetched block is a new event.
HeightChanged(blk, checked) == blk.height # checked.height

\* Variant: the error of fetchLastBlock is not looked at.
AfterFetchNoErrCheck(r, checked) ==
  IF HeightChanged(r.block, checked) THEN r.block ELSE checked

\* Variant: the assignment to lastBlockChecked is left out.
AfterFetchNoAck(r, checked) == checked

\* lastBlockChecked after the fetch: untouched when the fetch failed or the
\* height is the same, the fetched block otherwise.
AfterFetch(r, checked) ==
  IF r.err # nil THEN checked
  ELSE IF HeightChanged(r.block, checked) THEN r.block ELSE checked

\* tryNotifyIfNewBlock up to the call of getSubscribers.
TryNotifyFetch ==
  /\ wpc = "fetch"
  /\ \E res \in Responses :
       LET r == fetchLastBlock(res)
       IN  /\ status' = IF res.neterr THEN 0 ELSE res.status
           /\ IF r.err # nil
              THEN /\ err' = r.err
                   /\ wpc' = "sleep"
                   /\ allOk' = FALSE
                   /\ lastBlockChecked' = AfterFetch(r, lastBlockChecked)
                   /\ UNCHANGED <<lastBlock, fetched, firstFetch, detected,
                                  prevFetched, changes, lost>>
              ELSE /\ lastBlock' = r.block
                   /\ fetched' = TRUE
                   /\ firstFetch' = (prevFetched = NoHeight)
                   /\ prevFetched' = r.block.height
                   /\ changes' = IF r.block.height # prevFetched
                                 THEN changes + 1 ELSE changes
                   /\ lastBlockChecked' = AfterFetch(r, lastBlockChecked)
                   /\ lost' = IF r.block.height = lost THEN lost ELSE NoHeight
                   /\ IF HeightChanged(r.block, lastBlockChecked)
                      THEN /\ detected' = TRUE
                           /\ wpc' = "open"
                      ELSE /\ wpc' = "sleep"
                           /\ UNCHANGED detected
                   /\ UNCHANGED <<err, allOk>>
  /\ UNCHANGED <<ticks, ids, idx, rdOff, rdBuf, fileVars, inboundVars, before,
                 openRes, completedAtOpen, attempts, logged, fanouts,
                 inboundObs>>
  /\ UNCHANGED ctxVars
  /\ UNCHANGED appendObs
  /\ UNCHANGED fanoutObs

\* What os.Open can answer: ENOENT for a missing file; for a file that is
\* there, a handle or another error (EACCES, EMFILE, ...).
OpenOutcomes == IF exists THEN {"ok", "EACCES"} ELSE {"ENOENT"}

\* Variant: the error of os.Open is handed to the caller.
OpenFailedAsError(outcome) == [ids |-> <<>>, err |-> Error(outcome)]

\* getSubscribers when os.Open failed: every error of os.Open is a
\* *fs.PathError, so the function answers (nil, nil).
OpenFailed(outcome) == [ids |-> <<>>, err |-> nil]

\* getSubscribers: os.Open.
GetSubscribersOpen ==
  /\ wpc = "open"
  /\ \E o \in OpenOutcomes :
       /\ openRes' = o
       /\ IF o = "ok"
          THEN /\ wpc' = "scan"
               /\ UNCHANGED <<ids, idx, err, fanouts, allOk>>
          ELSE LET r == OpenFailed(o)
               IN  /\ ids' = r.ids
                   /\ err' = r.err
                   /\ IF r.err = nil
                      THEN /\ wpc' = "send" /\ idx' = 1
                           /\ fanouts' = fanouts + 1
                           /\ UNCHANGED allOk
                      ELSE /\ wpc' = "sleep" /\ allOk' = FALSE
                           /\ UNCHANGED <<idx, fanouts>>
  /\ completedAtOpen' = completed
  /\ UNCHANGED <<ticks, lastBlockChecked, lastBlock, rdOff, rdBuf, fileVars,
                 inboundVars, before, fetched, firstFetch, detected, attempts,
                 logged, prevFetched, changes, inboundObs>>
  /\ UNCHANGED lossObs
  /\ UNCHANGED ctxVars
  /\ UNCHANGED appendObs
  /\ UNCHANGED httpObs
  /\ UNCHANGED fanoutObs

\* Variant: a line that is no integer is skipped and the scan goes on.
RECURSIVE ScanBufferedSkipBad(_, _)
ScanBufferedSkipBad(buf, acc) ==
  LET i == NewlineAt(buf)
  IN  IF i = 0 THEN [ids |-> acc, buf |-> buf, err |-> nil]
      ELSE LET p == ParseInt(dropCR(SubSeq(buf, 1, i - 1)))
           IN  ScanBufferedSkipBad(SubSeq(buf, i + 1, Len(buf)),
                                   IF p.err # nil THEN acc
                                   ELSE Append(acc, p.val))

\* Variant: an id that is already in the list is not added again.
RECURSIVE ScanBufferedDedup(_, _)
ScanBufferedDedup(buf, acc) ==
  LET i == NewlineAt(buf)
  IN  IF i = 0 THEN [ids |-> acc, buf |-> buf, err |-> nil]
      ELSE LET p == ParseInt(dropCR(SubSeq(buf, 1, i - 1)))
           IN  IF p.err # nil
               THEN [ids |-> <<>>, buf |-> <<>>, err |-> p.err]
               ELSE ScanBufferedDedup(SubSeq(buf, i + 1, Len(buf)),
                                      IF p.val \in Range(acc) THEN acc
                                      ELSE Append(acc, p.val))

\* The scanner loop over the bytes it holds: every complete line is parsed;
\* the first line that is no integer ends getSubscribers with (nil, err).
RECURSIVE ScanBuffered(_, _)
ScanBuffered(buf, acc) ==
  LET i == NewlineAt(buf)
  IN  IF i = 0 THEN [ids |-> acc, buf |-> buf, err |-> nil]
      ELSE LET p == ParseInt(dropCR(SubSeq(buf, 1, i - 1)))
           IN  IF p.err # nil
               THEN [ids |-> <<>>, buf |-> <<>>, err |-> p.err]
               ELSE ScanBuffered(SubSeq(buf, i + 1, Len(buf)),
                                 Append(acc, p.val))

\* At end of file the scanner hands out what is left as a last line.
ScanFinal(buf, acc) ==
  IF buf = <<>> THEN [ids |-> acc, buf |-> <<>>, err |-> nil]
  ELSE LET p == ParseInt(dropCR(buf))
       IN  IF p.err # nil
           THEN [ids |-> <<>>, buf |-> <<>>, err |-> p.err]
           ELSE [ids |-> Append(acc, p.val), buf |-> <<>>, err |-> nil]

\* getSubscribers: one read of the file by the scanner, and the lines it
\* parses from what it holds.  A read that finds nothing more is the end of
\* the file.
GetSubscribersScan ==
  /\ wpc = "scan"
  /\ LET avail == SubSeq(content, rdOff + 1, Len(content))
         eof   == avail = <<>>
         r     == IF eof THEN ScanFinal(rdBuf, ids)
                  ELSE ScanBuffered(rdBuf \o avail, ids)
     IN  /\ rdOff' = Len(content)
         /\ ids' = r.ids
         /\ rdBuf' = r.buf
         /\ err' = r.err
         /\ IF r.err # nil
            THEN /\ wpc' = "sleep" /\ allOk' = FALSE
                 /\ lost' = lastBlock.height
                 /\ UNCHANGED <<idx, fanouts>>
            ELSE IF eof
            THEN /\ wpc' = "send" /\ idx' = 1 /\ fanouts' = fanouts + 1
                 /\ UNCHANGED <<allOk, lost>>
            ELSE UNCHANGED <<wpc, idx, fanouts, allOk, lost>>
  /\ UNCHANGED <<ticks, lastBlockChecked, lastBlock, fileVars, inboundVars,
                 cycleObs, prevFetched, changes, inboundObs>>
  /\ UNCHANGED ctxVars
  /\ UNCHANGED appendObs
  /\ UNCHANGED httpObs
  /\ UNCHANGED fanoutObs

\* getSubscribers: a read of the file fails.  The scanner still hands out
\* what it holds as a last line, then stops, and scanner.Err() is the error
\* of the read: return (nil, err).
GetSubscribersReadFail ==
  /\ wpc = "scan"
  /\ LET r == ScanFinal(rdBuf, ids)
     IN  err' = IF r.err # nil THEN r.err ELSE Error("scanError")
  /\ ids' = <<>>
  /\ rdBuf' = <<>>
  /\ wpc' = "sleep"
  /\ allOk' = FALSE
  /\ lost' = lastBlock.height
  /\ UNCHANGED <<ticks, lastBlockChecked, lastBlock, idx, rdOff, fileVars,
                 inboundVars, cycleObs, prevFetched, changes, fanouts,
                 inboundObs>>
  /\ UNCHANGED ctxVars
  /\ UNCHANGED appendObs
  /\ UNCHANGED httpObs
  /\ UNCHANGED fanoutObs

\* What bot.Send can answer for one message.
SendOutcomes == {nil, Error("sendError")}

\* tryNotifyIfNewBlock: one turn of the loop over ids.
NotifySend ==
  /\ wpc = "send"
  /\ idx <= Len(ids)
  /\ \E o \in SendOutcomes :
       /\ attempts' = Append(attempts, [id |-> ids[idx],
                                        height |-> lastBlock.height,
                                        err |-> o])
       /\ IF o # nil
          THEN /\ err' = o
               /\ wpc' = "sleep"
               /\ allOk' = FALSE
               /\ UNCHANGED idx
          ELSE /\ idx' = idx + 1
               /\ UNCHANGED <<err, wpc, allOk>>
  /\ UNCHANGED <<ticks, lastBlockChecked, lastBlock, ids, rdOff, rdBuf,
                 fileVars, inboundVars, before, fetched, firstFetch, detected,
                 openRes, completedAtOpen, logged, prevFetched, changes,
                 fanouts, inboundObs>>
  /\ UNCHANGED lossObs
  /\ UNCHANGED ctxVars
  /\ UNCHANGED appendObs
  /\ UNCHANGED httpObs
  /\ UNCHANGED fanoutObs

\* tryNotifyIfNewBlock: the loop over ids is over, return nil.
NotifyDone ==
  /\ wpc = "send"
  /\ idx > Len(ids)
  /\ wpc' = "sleep"
  /\ UNCHANGED <<ticks, lastBlockChecked, lastBlock, ids, idx, rdOff, rdBuf,
                 err, fileVars, inboundVars, cycleObs, workerObs, inboundObs>>
  /\ UNCHANGED lossObs
  /\ UNCHANGED ctxVars
  /\ UNCHANGED appendObs
  /\ UNCHANGED httpObs
  /\ UNCHANGED fanoutObs

\* Variant: the worker returns when the cycle has failed.
WorkerSleepFatal ==
  /\ wpc = "sleep"
  /\ logged' = err
  /\ wpc' = IF err # nil THEN "done" ELSE "select"
  /\ ticks' = IF allOk THEN ticks ELSE 0
  /\ changes' = IF allOk THEN changes ELSE 0
  /\ fanouts' = IF allOk THEN fanouts ELSE 0
  /\ UNCHANGED <<lastBlockChecked, lastBlock, ids, idx, rdOff, rdBuf, err,
                 fileVars, inboundVars, before, fetched, firstFetch, detected,
                 openRes, completedAtOpen, attempts, prevFetched, allOk,
                 inboundObs, lossObs, appendObs, ctxVars>>
  /\ status' = 0
  /\ UNCHANGED fanoutObs

\* worker: log the error of the cycle, if any, and sleep for the interval.
\* (The counters are dropped once a cycle has failed.)
WorkerSleep ==
  /\ wpc = "sleep"
  /\ logged' = err
  /\ wpc' = "select"
  /\ ticks' = IF allOk THEN ticks ELSE 0
  /\ changes' = IF allOk THEN changes ELSE 0
  /\ fanouts' = IF allOk THEN fanouts ELSE 0
  /\ UNCHANGED <<lastBlockChecked, lastBlock, ids, idx, rdOff, rdBuf, err,
                 fileVars, inboundVars, before, fetched, firstFetch, detected,
                 openRes, completedAtOpen, attempts, prevFetched, allOk,
                 inboundObs>>
  /\ UNCHANGED lossObs
  /\ UNCHANGED ctxVars
  /\ UNCHANGED appendObs
  /\ status' = 0
  /\ UNCHANGED fanoutObs

\* ------------------------------------------------------------ inbound
\* main: an update with a message arrives from chat id.
Receive ==
  /\ ipc = "recv"
  /\ \E id \in ChatIDs :
       /\ Len(content) + Len(FormatInt(id)) + 1 <= MaxFileLen
       /\ tgid' = id
  /\ ipc' = "openw"
  /\ UNCHANGED <<pending, saveErr, fileVars, workerVars, cycleObs, workerObs,
                 inboundObs>>
  /\ UNCHANGED lossObs
  /\ UNCHANGED ctxVars
  /\ sizeAtRecv' = Len(content)
  /\ UNCHANGED appends
  /\ UNCHANGED httpObs
  /\ UNCHANGED fanoutObs

\* saveSubscriberID: os.OpenFile with O_APPEND|O_CREATE|O_WRONLY succeeds,
\* creating the file when it is missing.
SaveOpen ==
  /\ ipc = "openw"
  /\ exists' = TRUE
  /\ pending' = FormatInt(tgid) \o <<NL>>
  /\ written' = written \cup {tgid}
  /\ ipc' = "write"
  /\ UNCHANGED <<content, tgid, saveErr, workerVars, cycleObs, workerObs,
                 completed, clean>>
  /\ UNCHANGED lossObs
  /\ UNCHANGED ctxVars
  /\ UNCHANGED appendObs
  /\ UNCHANGED httpObs
  /\ UNCHANGED fanoutObs

\* saveSubscriberID: os.OpenFile fails, return err.
SaveOpenFail ==
  /\ ipc = "openw"
  /\ saveErr' = Error("openError")
  /\ ipc' = "reply"
  /\ UNCHANGED <<tgid, pending, fileVars, workerVars, cycleObs, workerObs,
                 inboundObs>>
  /\ UNCHANGED lossObs
  /\ UNCHANGED ctxVars
  /\ UNCHANGED appendObs
  /\ UNCHANGED httpObs
  /\ UNCHANGED fanoutObs

\* saveSubscriberID: WriteString.  File.Write loops over write(2) until all
\* bytes are out, so the line may reach the file in several pieces, and
\* nothing keeps the worker from reading between two of them.
SaveWrite ==
  /\ ipc = "write"
  /\ \E k \in 1..Len(pending) :
       /\ content' = content \o SubSeq(pending, 1, k)
       /\ pending' = SubSeq(pending, k + 1, Len(pending))
       /\ IF k = Len(pending)
          THEN /\ ipc' = "reply"
               /\ saveErr' = nil
               /\ completed' = completed \cup {tgid}
               /\ appends' = [appends EXCEPT ![tgid] = @ + 1]
          ELSE UNCHANGED <<ipc, saveErr, completed, appends>>
  /\ UNCHANGED <<exists, tgid, workerVars, cycleObs, workerObs, written,
                 clean>>
  /\ UNCHANGED lossObs
  /\ UNCHANGED ctxVars
  /\ UNCHANGED sizeAtRecv
  /\ UNCHANGED httpObs
  /\ UNCHANGED fanoutObs

\* saveSubscriberID: a write(2) fails; the bytes written before it stay in
\* the file.
SaveWriteFail ==
  /\ ipc = "write"
  /\ saveErr' = Error("writeError")
  /\ pending' = <<>>
  /\ clean' = FALSE
  /\ ipc' = "reply"
  /\ UNCHANGED <<tgid, fileVars, workerVars, cycleObs, workerObs, written,
                 completed>>
  /\ UNCHANGED lossObs
  /\ UNCHANGED ctxVars
  /\ UNCHANGED appendObs
  /\ UNCHANGED httpObs
  /\ UNCHANGED fanoutObs

\* main: the reply to the chat, confirmation or failure by saveErr.
Reply ==
  /\ ipc = "reply"
  /\ ipc' = "recv"
  /\ tgid' = 0
  /\ saveErr' = nil
  /\ UNCHANGED <<pending, fileVars, workerVars, cycleObs, workerObs,
                 inboundObs>>
  /\ UNCHANGED lossObs
  /\ UNCHANGED ctxVars
  /\ sizeAtRecv' = 0
  /\ UNCHANGED appends
  /\ UNCHANGED httpObs
  /\ UNCHANGED fanoutObs

Next ==
  \/ WorkerSelect
  \/ TryNotifyFetch
  \/ GetSubscribersOpen
  \/ GetSubscribersScan
  \/ GetSubscribersReadFail
  \/ NotifySend
  \/ NotifyDone
  \/ WorkerSleep
  \/ Receive
  \/ SaveOpen
  \/ SaveOpenFail
  \/ SaveWrite
  \/ SaveWriteFail
  \/ Reply

Spec == Init /\ [][Next]_vars

\* ------------------------------------------------- worker and its context
\* main hands the worker context.TODO(), which nobody cancels, so under Spec
\* the worker never returns.  The worker itself takes any context: below it
\* runs under a caller that may cancel the context at any moment.

\* The caller cancels the context: the channel of ctx.Done() is closed.
Cancel ==
  /\ ~cancelled
  /\ cancelled' = TRUE
  /\ cancelAt' = wpc
  /\ UNCHANGED <<fileVars, workerVars, inboundVars, cycleObs, workerObs,
                 inboundObs, lossObs, appendObs, httpObs, fanoutObs>>

\* worker: the case of ctx.Done() in the select, return.
WorkerReturn ==
  /\ wpc = "select"
  /\ cancelled
  /\ wpc' = "done"
  /\ UNCHANGED <<ticks, lastBlockChecked, lastBlock, ids, idx, rdOff, rdBuf,
                 err, fileVars, inboundVars, cycleObs, workerObs, inboundObs,
                 lossObs, appendObs, httpObs, fanoutObs, ctxVars>>

NextCtx ==
  \/ WorkerSelect
  \/ TryNotifyFetch
  \/ GetSubscribersOpen
  \/ GetSubscribersScan
  \/ GetSubscribersReadFail
  \/ NotifySend
  \/ NotifyDone
  \/ WorkerSleep
  \/ Cancel
  \/ WorkerReturn

SpecCtx == Init /\ [][NextCtx]_vars

\* ============================================================= claims
\* The worker has started a cycle.
Started == ticks > 0 \/ ~allOk

\* The cycle of the worker is over (tryNotifyIfNewBlock has returned).
CycleOver == wpc \in {"sleep", "select"} /\ Started

\* getSubscribers returned its list without an error in this cycle.
Listed == idx >= 1

\* The chats whose delivery failed in this cycle.
FailedIds == {attempts[i].id : i \in {j \in 1..Len(attempts) : attempts[j].err # nil}}

\* The chats an error value names.
NamedIn(e) == IF "chat" \in DOMAIN e THEN {e.chat} ELSE {}

\* The lines the scanner has been given so far: the complete lines of the
\* bytes read, and the unterminated rest as a last line.
LinesRead ==
  LET data == SubSeq(content, 1, rdOff)
  IN  IF data = <<>> \/ data[Len(data)] = NL THEN LinesOf(data)
      ELSE LinesOf(data \o <<NL>>)

\* C1: while every cycle so far returned without error, the number of
\* fanouts equals the number of cycles whose fetched height differs from the
\* height of the previous successful fetch, the first fetch counting as a
\* change.
C1_FanoutPerChange == (CycleOver /\ allOk) => fanouts = changes

\* C2: a cycle that fetches a block of the same height as the acknowledged
\* one (whatever its timestamp) detects no event, attempts no delivery, does
\* not read the subscribers and leaves lastBlockChecked as it was.
C2_SameHeightNoEvent ==
  (fetched /\ lastBlock.height = before.height)
    => /\ ~detected
       /\ attempts = <<>>
       /\ openRes = "none"
       /\ lastBlockChecked = before

C2_Witness ==
  /\ CycleOver /\ fetched
  /\ before.ts # 0
  /\ lastBlock.height = before.height
  /\ lastBlock.ts # before.ts

\* C3: a cycle that fetches a block whose height differs from the
\* acknowledged one, greater or smaller, detects an event and overwrites
\* lastBlockChecked with the fetched block.
C3_DiffHeightIsEvent ==
  (fetched /\ lastBlock.height # before.height)
    => (detected /\ lastBlockChecked = lastBlock)

C3_Witness ==
  /\ CycleOver /\ fetched
  /\ before.ts # 0
  /\ lastBlock.height < before.height
  /\ lastBlockChecked = lastBlock

\* C4: the first successful fetch of the process is detected as a new event
\* and acknowledged, whatever its height.
C4_FirstFetchIsNew ==
  firstFetch => (detected /\ lastBlockChecked = lastBlock)

\* C5: in a fanout every subscriber of the list gets a delivery attempt,
\* whichever earlier deliveries failed.
C5_AllAttempted ==
  (CycleOver /\ Listed) => Len(attempts) = Len(ids)

\* C6: what the worker logs for a cycle names exactly the chats whose
\* delivery failed in it.
C6_ReportNamesFailed ==
  (wpc = "select" /\ Listed) => NamedIn(logged) = FailedIds

\* C7: as long as the file started well-formed and no write failed, a list
\* that getSubscribers returns holds only ids that were in the file at start
\* or were handed to saveSubscriberID, however its reads interleave with an
\* append.
C7_ListsWholeIds ==
  (clean /\ openRes = "ok" /\ Listed) => Range(ids) \subseteq written

\* C8: a list that getSubscribers returns without error holds every id whose
\* saveSubscriberID had returned nil before that getSubscribers started.
C8_CompletedIsListed ==
  Listed => completedAtOpen \subseteq Range(ids)

\* C9: getSubscribers on a missing file returns an empty list and no error;
\* the cycle attempts no delivery, returns no error, and the block it
\* detected is acknowledged.
C9_MissingFileEmptyList ==
  openRes = "ENOENT"
    => /\ ids = <<>>
       /\ err = nil
       /\ attempts = <<>>
       /\ wpc \in {"send", "sleep", "select"}
       /\ detected /\ lastBlockChecked = lastBlock
       /\ (wpc = "select" => logged = nil)

C9_Witness ==
  /\ openRes = "ENOENT"
  /\ wpc = "select"
  /\ ~exists
  /\ lastBlockChecked = lastBlock /\ lastBlock.ts # 0

\* C10: when a line given to the scanner is no decimal integer,
\* getSubscribers returns an error and no id at all, and the cycle attempts
\* no delivery, wherever the bad line stands.
C10_BadLineFailsListing ==
  /\ (openRes = "ok" /\ Listed)
       => \A l \in Range(LinesRead) : ParseInt(l).err = nil
  /\ (openRes = "ok" /\ ~Listed /\ CycleOver)
       => /\ err.kind \in {"ErrSyntax", "ErrRange", "scanError"}
          /\ ids = <<>>
          /\ attempts = <<>>

C10_Witness ==
  /\ wpc = "select"
  /\ err.kind = "ErrSyntax"
  /\ content = <<"1", NL, "x", NL>>
  /\ ids = <<>> /\ attempts = <<>>

\* C11: a cycle whose fetch failed leaves lastBlockChecked as it was, does
\* not open the subscribers file and attempts no delivery; every fetch is
\* compared against the lastBlockChecked of that moment, so the next
\* successful fetch meets the same value as before the failed cycle.
C11_FailedFetchChangesNothing ==
  /\ (Started /\ wpc # "fetch" /\ ~fetched)
       => /\ err.kind \in {"httpError", "readError", "jsonError",
                           "errUnexpectedStructure"}
          /\ wpc \in {"sleep", "select"}
          /\ lastBlockChecked = before
          /\ openRes = "none"
          /\ attempts = <<>>
  /\ (wpc = "fetch" => before = lastBlockChecked)

C11_Witness ==
  /\ wpc = "select" /\ Started /\ ~fetched
  /\ err.kind = "errUnexpectedStructure"
  /\ lastBlockChecked.height # 0 /\ lastBlockChecked.ts # 0

\* C12: in a cycle that detects a new event lastBlockChecked holds the
\* fetched block from the detection on: already when getSubscribers has not
\* yet opened the file, and at every delivery attempt; nothing writes it
\* again in the cycle.  In a cycle that detects no event it keeps the value
\* it had when the cycle began.
C12_AckOnceBeforeList ==
  /\ (wpc \in {"open", "scan", "send"} \/ openRes # "none" \/ attempts # <<>>)
       => detected
  /\ detected => (lastBlockChecked = lastBlock /\ lastBlock # before)
  /\ (Started /\ wpc # "fetch" /\ ~detected) => lastBlockChecked = before

C12_Witness ==
  /\ wpc = "open" /\ openRes = "none" /\ attempts = <<>>
  /\ before.ts # 0
  /\ lastBlockChecked = lastBlock /\ lastBlock.height # before.height

\* C13: when getSubscribers failed in the cycle that detected height h, no
\* delivery is attempted in that cycle, nor in any later cycle that fetches
\* h again before another height was fetched, whatever the file holds by
\* then.
C13_LostEventNotRetried ==
  (lost # NoHeight /\ fetched /\ lastBlock.height = lost)
    => (attempts = <<>> /\ lastBlockChecked.height = lost)

C13_Witness ==
  /\ lost # NoHeight /\ fetched /\ lastBlock.height = lost
  /\ ~detected /\ wpc = "select" /\ err = nil
  /\ exists /\ content = <<"1", NL>>

\* C14: once the context is cancelled no cycle is started (no step takes the
\* worker to its fetch), the cycle that is running is not cut short (the
\* worker returns only from the select at the top of the loop, which it
\* reaches after the sleep), and from that select it can only return.
C14_CancelStopsAtLoopTop ==
  [][ cancelled =>
        /\ cancelled'
        /\ wpc' = "fetch" => wpc = "fetch"
        /\ wpc' = "done" => wpc \in {"select", "done"}
        /\ wpc = "select" => wpc' \in {"select", "done"}
        /\ wpc \in {"open", "scan", "send"} => wpc' \in {wpc, "scan", "send", "sleep"}
        /\ wpc = "sleep" => wpc' \in {"sleep", "select"} ]_vars

\* The context was cancelled while the worker was about to list the
\* subscribers; the cycle went on to send, and then the worker returned.
C14_Witness ==
  /\ wpc = "done" /\ cancelAt = "open"
  /\ attempts # <<>> /\ logged = nil

\* The tokens a scanner hands out when it reads data whole: the complete
\* lines and, last, what follows the last newline.
TokensOf(data) ==
  LET n    == Len(data)
      tail == CHOOSE t \in {SubSeq(data, i, n) : i \in 1..(n + 1)} :
                /\ NewlineAt(t) = 0
                /\ \A u \in {SubSeq(data, i, n) : i \in 1..(n + 1)} :
                     NewlineAt(u) = 0 => Len(u) <= Len(t)
  IN  IF tail = <<>> THEN LinesOf(data) ELSE LinesOf(data) \o <<dropCR(tail)>>

\* How many tokens of data read as the identity id.
Holds(data, id) ==
  Cardinality({i \in DOMAIN TokensOf(data) :
                 ParseInt(TokensOf(data)[i]) = [err |-> nil, val |-> id]})

\* C15: when saveSubscriberID has returned, the reply goes to the chat of the
\* message, and after a failed append the file holds the identity of that
\* chat no more often than when the message arrived.
C15_FailedAppendLeavesNoIdentity ==
  ipc = "reply" =>
    /\ tgid \in ChatIDs
    /\ saveErr # nil =>
         Holds(content, tgid) = Holds(SubSeq(content, 1, sizeAtRecv), tgid)

\* How often id is in the list seq.
CountIn(seq, id) == Cardinality({i \in DOMAIN seq : seq[i] = id})

\* How many notifications of the cycle went to id.
SentTo(id) == Cardinality({i \in DOMAIN attempts : attempts[i].id = id})

\* The listing of the cycle has read the file as it stands, no write to the
\* file has ever failed and no append is under way.
ListedAtRest ==
  /\ openRes = "ok" /\ Listed /\ rdOff = Len(content)
  /\ clean /\ pending = <<>>

C17_UnreadableFileIsError ==
  (openRes \notin {"none", "ok", "ENOENT"}) =>
    /\ err # nil
    /\ ~Listed
    /\ wpc \in {"sleep", "select"}

\* C18: the worker returns only when the context is cancelled; a cycle that
\* ends with an error goes to the sleep like any other, the sleep leads back
\* to the select, and from there, the context not cancelled, the next cycle
\* can start.
C18_ErrorsNeverStopWorker ==
  /\ [](wpc = "done" => cancelled)
  /\ []((wpc = "select" /\ ~cancelled /\ ~allOk) => ENABLED WorkerSelect)
  /\ [][ /\ wpc' = "done" => (wpc = "done" \/ cancelled)
         /\ (wpc \in {"fetch", "open", "scan", "send"} /\ err' # nil)
              => wpc' = "sleep"
         /\ wpc = "sleep" => wpc' \in {"sleep", "select"}
         /\ (wpc = "select" /\ ~cancelled) => wpc' \in {"select", "fetch"} ]_vars

\* A cycle has failed at listing the subscribers, and the worker is in a
\* later cycle, the context not cancelled.
C18_Witness ==
  /\ wpc = "fetch" /\ ~allOk /\ ~cancelled
  /\ lost # NoHeight

\* C19: a response whose status is not 2xx gives an error, whatever its
\* body: no block is taken from it, lastBlockChecked stays as it was and
\* nothing is sent.
C19_Non2xxIsFetchError ==
  (status # 0 /\ status \notin 200..299) =>
    /\ ~fetched /\ err # nil
    /\ lastBlockChecked = before
    /\ attempts = <<>>

\* The notifications of the cycle carry the height fetched in the cycle,
\* that height is the one of lastBlockChecked, and it was taken for new.
SendsAcknowledgedHeight ==
  attempts # <<>> =>
    /\ fetched /\ detected
    /\ \A i \in DOMAIN attempts : attempts[i].height = lastBlock.height
    /\ lastBlockChecked.height = lastBlock.height

\* C20 as stated: every notification carries the height fetched in its
\* cycle, which is the height of lastBlockChecked, and the notifications of
\* a cycle never carry the height of the notifications sent before them.
C20_ConsecutiveFanoutsDiffer ==
  /\ SendsAcknowledgedHeight
  /\ attempts # <<>> => lastBlock.height # lastFanout

\* C20 amended: every notification carries the height fetched in its cycle,
\* which is the height of lastBlockChecked, and that height is not the one
\* lastBlockChecked had before the cycle.
C20_FanoutHeightDiffersFromLastAck ==
  /\ SendsAcknowledgedHeight
  /\ attempts # <<>> => lastBlock.height # before.height

\* Notifications for a height are sent in a cycle that found another height,
\* not the zero block, in lastBlockChecked.
C20_Witness ==
  /\ attempts # <<>> /\ before.ts # 0
  /\ attempts[1].height = lastBlockChecked.height
  /\ lastBlock.height # before.height

====
